---- MODULE Spec2Model ----
(***************************************************************************)
(* The two dashboards of the repository as one state machine.              *)
(*                                                                         *)
(*   "dashboard" is src/xai_powered_analytics_dashboard.py (main() and its *)
(*               four section functions);                                  *)
(*   "script"    is src/_1.py (the same four sections as one top-to-bottom *)
(*               script).                                                  *)
(*                                                                         *)
(* One render is one pass through the program: the CSV file is read, each  *)
(* section filters the table into its view and hands it to a chart call.   *)
(* An uncaught exception ends the pass.  Moving a slider starts a new pass *)
(* with the moved value kept in the widget state.  st.set_page_config,      *)
(* st.markdown and the captions change nothing a section reads and are     *)
(* left out.                                                               *)
(*                                                                         *)
(* A row of the table is a function from the columns in which it has a     *)
(* value to that value: a column of the table outside a row's domain is a  *)
(* missing value (NaN) of that row.  Numbers are kept in tenths (205 is    *)
(* 20.5), so that int(default) has something to truncate.                  *)
(***************************************************************************)
EXTENDS Integers, Sequences, FiniteSets, TLC

\* ------------------------------------------------------------------ bounds
\* Longest table the file may hold.
MaxRows == 2
\* Most sliders that may carry a value set by the user.
MaxMoves == 1

\* ------------------------------------------------------- program constants
min_value == 0
max_value == 100
loan_to_income_default == 35
payment_history_default == 30
credit_utilization_default == 20

Programs == {"dashboard", "script"}

MI == "Model Interpretability"
DS == "Data Sources"
KM == "Key Metrics"
RW == "Real-World Scenario"
Sections == {MI, DS, KM, RW}

\* Every column either program names.
Columns ==
    {"Component", "Feature", "SHAP Value", "LIME Weight", "Source",
     "Percentage Contribution (%)", "Model", "Accuracy (%)",
     "Compliance Rate (%)", "Accuracy", "Compliance Rate", "Risk Factor",
     "Risk Score Contribution (%)", "Correlation"}

\* A cell of a pivot table that holds no count.
NA == <<>>

notna(r, f) == f \in DOMAIN r

Empty == [x \in {} |-> 0]

\* ------------------------------------------------------------ pandas
\* data[data[column] == label]: KeyError when the column is absent, else the
\* rows whose cell equals the label, in table order (a missing cell compares
\* unequal).
Filter(df, column, label) ==
    IF df.err # "none" THEN df
    ELSE IF column \notin df.cols
    THEN [err |-> "KeyError", cols |-> df.cols, rows |-> <<>>]
    ELSE [err |-> "none", cols |-> df.cols,
          rows |-> SelectSeq(df.rows,
                      LAMBDA r : notna(r, column) /\ r[column] = label)]

\* A dropna that skips the columns the table does not have.
dropna_lenient(df, subset) ==
    IF df.err # "none" THEN df
    ELSE [err |-> "none", cols |-> df.cols,
          rows |-> SelectSeq(df.rows,
                      LAMBDA r : \A f \in subset \cap df.cols : notna(r, f))]

\* DataFrame.dropna(subset=...): KeyError when a named column is absent, else
\* the rows with a value in every named column, in table order.
dropna(df, subset) ==
    IF df.err # "none" THEN df
    ELSE IF ~(subset \subseteq df.cols)
    THEN [err |-> "KeyError", cols |-> df.cols, rows |-> <<>>]
    ELSE [err |-> "none", cols |-> df.cols,
          rows |-> SelectSeq(df.rows, LAMBDA r : \A f \in subset : notna(r, f))]

\* DataFrame.dropna() without a subset: every column counts.
dropna_all(df) == dropna(df, df.cols)

Frame(d) == [err |-> "none", cols |-> d.cols, rows |-> d.rows]

\* ------------------------------------------------- the four section views
\* The columns each section names in dropna(subset=...).
subset(p, s) ==
    IF p = "dashboard"
    THEN CASE s = MI -> {"Feature", "SHAP Value", "LIME Weight"}
           [] s = DS -> {"Source", "Percentage Contribution (%)"}
           [] s = KM -> {"Model", "Accuracy (%)", "Compliance Rate (%)"}
           [] s = RW -> {"Risk Factor", "Risk Score Contribution (%)",
                         "Correlation"}
    ELSE CASE s = MI -> {}
           [] s = DS -> {}
           [] s = KM -> {"Accuracy", "Compliance Rate"}
           [] s = RW -> {"Risk Factor", "Correlation"}

\* The columns each section's chart code reads from its view.
chart_fields(p, s) ==
    IF p = "dashboard"
    THEN CASE s = MI -> {"SHAP Value", "Feature"}
           [] s = DS -> {"Source", "Percentage Contribution (%)"}
           [] s = KM -> {"Model", "Accuracy (%)", "Compliance Rate (%)"}
           [] s = RW -> {"Risk Factor", "Risk Score Contribution (%)"}
    ELSE CASE s = MI -> {"SHAP Value", "Feature"}
           [] s = DS -> {"Source"}
           [] s = KM -> {"Model", "Accuracy", "Compliance Rate"}
           [] s = RW -> {"Risk Factor", "Correlation"}

model_data(p, d) ==
    IF p = "dashboard"
    THEN dropna(Filter(Frame(d), "Component", MI), subset(p, MI))
    ELSE Filter(Frame(d), "Component", MI)

source_data(p, d) ==
    IF p = "dashboard"
    THEN dropna(Filter(Frame(d), "Component", DS), subset(p, DS))
    ELSE dropna_all(Filter(Frame(d), "Component", DS))

metrics_data(p, d) ==
    IF p = "dashboard"
    THEN dropna(Filter(Frame(d), "Component", KM), subset(p, KM))
    ELSE dropna(Frame(d), subset(p, KM))

\* The scenario view with no rows dropped.
scenario_data_nodrop(p, d) ==
    IF p = "dashboard" THEN Filter(Frame(d), "Component", RW) ELSE Frame(d)

scenario_data(p, d) ==
    IF p = "dashboard"
    THEN dropna(Filter(Frame(d), "Component", RW), subset(p, RW))
    ELSE dropna(Frame(d), subset(p, RW))

\* ------------------------------------------------------------ pivot tables
\* pivot_table(index=rowField, columns=colField, aggfunc="size"): the rows
\* are grouped by the two keys (rows missing a key are in no group), each
\* group's size is its cell, and a pair of keys that has no group is left
\* missing: no fill_value is given.
pivot_size(rows, rowField, colField) ==
    LET grouped == {i \in 1..Len(rows) :
                        notna(rows[i], rowField) /\ notna(rows[i], colField)}
        R == {rows[i][rowField] : i \in grouped}
        C == {rows[i][colField] : i \in grouped}
        n(r, c) == Cardinality({i \in grouped :
                        rows[i][rowField] = r /\ rows[i][colField] = c})
    IN [index |-> R, columns |-> C,
        cell |-> [rc \in R \X C |->
                    IF n(rc[1], rc[2]) = 0 THEN NA ELSE <<n(rc[1], rc[2])>>]]

RECURSIVE first_fold(_, _, _, _)
first_fold(rows, rowField, valueField, acc) ==
    IF rows = <<>> THEN acc
    ELSE LET r == Head(rows)
             take == /\ notna(r, rowField)
                     /\ notna(r, valueField)
                     /\ r[rowField] \notin DOMAIN acc
         IN first_fold(Tail(rows), rowField, valueField,
                       IF take THEN (r[rowField] :> r[valueField]) @@ acc
                       ELSE acc)

RECURSIVE last_fold(_, _, _, _)
last_fold(rows, rowField, valueField, acc) ==
    IF rows = <<>> THEN acc
    ELSE LET r == Head(rows)
             take == notna(r, rowField) /\ notna(r, valueField)
         IN last_fold(Tail(rows), rowField, valueField,
                      IF take THEN (r[rowField] :> r[valueField]) @@ acc
                      ELSE acc)

\* aggfunc='last' in place of 'first'.
pivot_last(rows, rowField, valueField) ==
    last_fold(rows, rowField, valueField, Empty)

\* pivot_table(values=valueField, index=rowField, aggfunc='first'): the rows
\* are grouped by the key in table order and each group gives its first
\* value that is not missing; a group with no value gives no entry.
pivot_first(rows, rowField, valueField) ==
    first_fold(rows, rowField, valueField, Empty)

\* ----------------------------------------------------------------- charts
\* seaborn barplot/lineplot of two named columns: a name that is no column of
\* the data is refused.  An empty view is taken to draw an empty chart.
barplot(df, x, y) == IF {x, y} \subseteq df.cols THEN "none" ELSE "ValueError"

lineplot(df, x, y) == barplot(df, x, y)

\* Axes.pie refuses a negative wedge size.  No wedges are taken to draw an
\* empty chart.
pie(sizes) ==
    IF \E i \in 1..Len(sizes) : sizes[i] < 0 THEN "ValueError" ELSE "none"

\* seaborn heatmap takes the minimum and maximum of the cells for its colour
\* scale, which a table without cells does not have.
heatmap(cells) == IF cells = {} THEN "ValueError" ELSE "none"

\* df[column]
getitem(df, column) == IF column \in df.cols THEN "none" ELSE "KeyError"

\* int(x) of a number held in tenths: truncation towards zero.
int(x) == IF x >= 0 THEN x \div 10 ELSE -((-x) \div 10)

Column(rows, f) == [i \in 1..Len(rows) |-> rows[i][f]]

\* ---------------------------------------------------------------- sliders
\* st.slider(label, min_value, max_value, value): a default outside
\* [min_value, max_value] is refused, and so is a second widget with the
\* label and arguments of one already made in this run.  The widget returns
\* the value the user left it at, or its default.
slider(label, lo, hi, value, made, sess) ==
    LET id == <<label, value>>
    IN IF value < lo \/ value > hi
       THEN [err |-> "StreamlitAPIException", id |-> id, value |-> value]
       ELSE IF \E i \in 1..Len(made) : made[i].id = id
       THEN [err |-> "DuplicateWidgetID", id |-> id, value |-> value]
       ELSE [err |-> "none", id |-> id,
             value |-> IF id \in DOMAIN sess THEN sess[id] ELSE value]

\* for factor, default in zip(factors, default_values):
\*     inputs[factor] = st.slider(factor, 0, 100, int(default))
RECURSIVE slider_loop(_, _, _, _)
slider_loop(rows, made, ins, sess) ==
    IF rows = <<>> THEN [err |-> "none", made |-> made, inputs |-> ins]
    ELSE LET r == Head(rows)
             factor == r["Risk Factor"]
             w == slider(factor, min_value, max_value,
                         int(r["Risk Score Contribution (%)"]), made, sess)
         IN IF w.err # "none"
            THEN [err |-> w.err, made |-> made, inputs |-> ins]
            ELSE slider_loop(Tail(rows),
                             Append(made, [id |-> w.id, value |-> w.value]),
                             (factor :> w.value) @@ ins,
                             sess)

\* The script's three sliders, with their fixed labels and defaults.
FixedSliders ==
    << <<"Loan-to-Income Ratio", loan_to_income_default>>,
       <<"Payment History Impact", payment_history_default>>,
       <<"Credit Utilization Impact", credit_utilization_default>> >>

RECURSIVE fixed_sliders(_, _, _, _)
fixed_sliders(todo, made, ins, sess) ==
    IF todo = <<>> THEN [err |-> "none", made |-> made, inputs |-> ins]
    ELSE LET w == slider(Head(todo)[1], min_value, max_value, Head(todo)[2],
                         made, sess)
         IN IF w.err # "none"
            THEN [err |-> w.err, made |-> made, inputs |-> ins]
            ELSE fixed_sliders(Tail(todo),
                               Append(made, [id |-> w.id, value |-> w.value]),
                               (Head(todo)[1] :> w.value) @@ ins, sess)

\* ------------------------------------------------------------------ state
VARIABLES
    prog,          \* which program runs
    file,          \* the CSV file on disk: [kind, cols, rows]
    session,       \* widget state kept between runs: slider id -> user's value
    pc,            \* the step the run is at
    data,          \* the loaded table: [loaded, cols, rows]
    view,          \* per section: [built, rows]
    pivot_table,   \* the scenario section's pivot: [built, table]
    sliders,       \* the sliders made in this run, in order: [id, value]
    inputs,        \* label -> value, as the scenario section collects them
    drawn,         \* the sections rendered in full (charts and sliders)
    log,           \* what this run has done so far, in order
    error          \* the exception that ended the run, or "none"

vars == <<prog, file, session, pc, data, view, pivot_table, sliders, inputs,
          drawn, log, error>>

\* The order of a run's steps.
Steps(p) ==
    IF p = "dashboard" THEN <<"load_data", "title", MI, DS, KM, RW, "done">>
    ELSE <<"title", "load_data", MI, DS, KM, RW, "done">>

StepAfter(p, step) ==
    LET i == CHOOSE j \in 1..Len(Steps(p)) : Steps(p)[j] = step
    IN Steps(p)[i + 1]

\* A run that goes on to the next step whatever was raised.
after_swallow(p, step, err) == StepAfter(p, step)

\* An exception nobody catches ends the run.
after(p, step, err) == IF err # "none" THEN "aborted" ELSE StepAfter(p, step)

\* ------------------------------------------------------------- the inputs
KeyColumns == {"Feature", "Source", "Model", "Risk Factor"}

\* A row of the file: the named columns filled, the others missing.
Row(comp, filled, k, v, c) ==
    [col \in filled \cup {"Component"} |->
        IF col = "Component" THEN comp
        ELSE IF col \in KeyColumns THEN k
        ELSE IF col = "Correlation" THEN c
        ELSE v]

FieldsOf(s) == subset("dashboard", s) \cup chart_fields("script", s)

\* The rows a file is made of.  Per section: a row with all of the section's
\* fields, and rows lacking one of them; for Data Sources also a negative
\* percentage and a row with a value in every column of the table; for the
\* scenario two risk factors, two correlations, and contributions of 20.5,
\* 135.0 and -5.0.
RowPool ==
    { Row(MI, FieldsOf(MI), "a", 205, "hi"),
      Row(MI, FieldsOf(MI) \ {"SHAP Value"}, "a", 205, "hi"),
      Row(DS, FieldsOf(DS), "a", -50, "hi"),
      Row(DS, FieldsOf(DS) \ {"Percentage Contribution (%)"}, "b", 205, "hi"),
      Row(DS, Columns, "a", 205, "hi"),
      Row(KM, FieldsOf(KM), "a", 205, "hi"),
      Row(KM, FieldsOf(KM) \ {"Accuracy (%)", "Accuracy"}, "b", 205, "hi"),
      Row(RW, FieldsOf(RW), "a", 205, "hi"),
      Row(RW, FieldsOf(RW), "a", 1350, "lo"),
      Row(RW, FieldsOf(RW), "b", -50, "lo"),
      Row(RW, FieldsOf(RW) \ {"Correlation"}, "b", 205, "hi") }

\* The columns program p names.
Named(p) ==
    {"Component"} \cup UNION {subset(p, s) \cup chart_fields(p, s) : s \in Sections}

\* The header of the file: every column, or every column but one of those
\* the program names.
Headers(p) == {Columns} \cup {Columns \ {c} : c \in Named(p)}

Tables(cols) ==
    UNION { [1..n -> {[c \in DOMAIN r \cap cols |-> r[c]] : r \in RowPool}] :
                n \in 0..MaxRows }

Files(p) ==
    UNION { { [kind |-> "ok", cols |-> cols, rows |-> rows] :
                rows \in Tables(cols) } : cols \in Headers(p) }
    \cup { [kind |-> k, cols |-> {}, rows |-> <<>>] :
             k \in {"missing", "unreadable", "malformed"} }

SliderValues == {min_value, max_value}

NoData == [loaded |-> FALSE, cols |-> {}, rows |-> <<>>]
NoView == [built |-> FALSE, rows |-> <<>>]
NoTable == [built |-> FALSE, table |-> Empty]

Fresh ==
    /\ data = NoData
    /\ view = [s \in Sections |-> NoView]
    /\ pivot_table = NoTable
    /\ sliders = <<>>
    /\ inputs = Empty
    /\ drawn = {}
    /\ log = <<>>
    /\ error = "none"

Init ==
    /\ prog \in Programs
    /\ file \in Files(prog)
    /\ session = Empty
    /\ pc = Steps(prog)[1]
    /\ Fresh

\* ---------------------------------------------------------------- actions
\* A read_csv that answers a file it cannot read with an empty table.
read_csv_lenient(f) ==
    IF f.kind = "ok"
    THEN [err |-> "none", cols |-> f.cols, rows |-> f.rows]
    ELSE [err |-> "none", cols |-> Columns, rows |-> <<>>]

\* pd.read_csv(file_path): the table of a file it can parse; a missing file
\* (FileNotFoundError), an unreadable one (PermissionError) or one the parser
\* rejects (ParserError, EmptyDataError) raises.  The programs catch nothing
\* and name no error of their own: this is the spec's DataUnavailable.
read_csv(f) ==
    IF f.kind = "ok"
    THEN [err |-> "none", cols |-> f.cols, rows |-> f.rows]
    ELSE [err |-> "DataUnavailable", cols |-> {}, rows |-> <<>>]

\* data = load_data("expanded_hypothetical_data.csv")   (dashboard)
\* data = pd.read_csv(file_path)                        (script)
load_data ==
    /\ pc = "load_data"
    /\ LET r == read_csv(file)
       IN /\ data' = IF r.err = "none"
                     THEN [loaded |-> TRUE, cols |-> r.cols, rows |-> r.rows]
                     ELSE data
          /\ error' = r.err
          /\ log' = log \o (IF r.err = "none" THEN << <<"load", "-">> >>
                            ELSE << <<"raise", "load_data">> >>)
          /\ pc' = after(prog, "load_data", r.err)
    /\ UNCHANGED <<prog, file, session, view, pivot_table, sliders, inputs,
                   drawn>>

\* st.title(...); st.write(...)
title ==
    /\ pc = "title"
    /\ log' = Append(log, <<"title", "-">>)
    /\ pc' = after(prog, "title", "none")
    /\ UNCHANGED <<prog, file, session, data, view, pivot_table, sliders,
                   inputs, drawn, error>>

\* What a section leaves behind: its view when building it raised nothing,
\* its charts when drawing them raised nothing either.
Section(s, v, drawErr) ==
    LET built == v.err = "none"
        err   == IF built THEN drawErr ELSE v.err
    IN /\ view' = IF built
                  THEN [view EXCEPT ![s] = [built |-> TRUE, rows |-> v.rows]]
                  ELSE view
       /\ drawn' = IF err = "none" THEN drawn \cup {s} ELSE drawn
       /\ log' = log \o (IF built THEN << <<"build", s>> >> ELSE <<>>)
                     \o (IF err = "none" THEN << <<"draw", s>> >>
                         ELSE << <<"raise", s>> >>)
       /\ error' = err
       /\ pc' = after(prog, s, err)

model_interpretability_section ==
    /\ pc = MI
    /\ LET v == model_data(prog, data)
       IN Section(MI, v, barplot(v, "SHAP Value", "Feature"))
    /\ UNCHANGED <<prog, file, session, data, pivot_table, sliders, inputs>>

data_sources_section ==
    /\ pc = DS
    /\ LET v == source_data(prog, data)
       IN Section(DS, v,
            IF prog = "dashboard"
            THEN pie(Column(v.rows, "Percentage Contribution (%)"))
            ELSE getitem(v, "Source"))
    /\ UNCHANGED <<prog, file, session, data, pivot_table, sliders, inputs>>

key_metrics_section ==
    /\ pc = KM
    /\ LET v == metrics_data(prog, data)
       IN Section(KM, v,
            IF prog = "dashboard"
            THEN IF barplot(v, "Model", "Accuracy (%)") # "none"
                 THEN barplot(v, "Model", "Accuracy (%)")
                 ELSE lineplot(v, "Model", "Compliance Rate (%)")
            ELSE getitem(v, "Model"))
    /\ UNCHANGED <<prog, file, session, data, pivot_table, sliders, inputs>>

real_world_scenario_section ==
    /\ pc = RW
    /\ LET v  == scenario_data(prog, data)
           ok == v.err = "none"
           t  == IF ~ok THEN Empty
                 ELSE IF prog = "dashboard"
                 THEN pivot_first(v.rows, "Risk Factor",
                                  "Risk Score Contribution (%)")
                 ELSE pivot_size(v.rows, "Risk Factor", "Correlation")
           h  == IF ~ok THEN v.err
                 ELSE IF prog = "dashboard" THEN heatmap(DOMAIN t)
                 ELSE heatmap(DOMAIN t.cell)
           w  == IF prog = "dashboard"
                 THEN slider_loop(v.rows, <<>>, Empty, session)
                 ELSE fixed_sliders(FixedSliders, <<>>, Empty, session)
       IN /\ pivot_table' = IF ok THEN [built |-> TRUE, table |-> t]
                            ELSE pivot_table
          /\ sliders' = IF h = "none" THEN w.made ELSE sliders
          /\ inputs' = IF h = "none" THEN w.inputs ELSE inputs
          /\ Section(RW, v, IF h # "none" THEN h ELSE w.err)
    /\ UNCHANGED <<prog, file, session, data>>

\* The user drags one of the sliders on the page to another value: the
\* widget keeps it and the program runs again from the top.
slider_move ==
    /\ pc \in {"done", "aborted"}
    /\ \E i \in 1..Len(sliders), x \in SliderValues :
          /\ x # sliders[i].value
          /\ Cardinality(DOMAIN session \cup {sliders[i].id}) <= MaxMoves
          /\ session' = (sliders[i].id :> x) @@ session
    /\ pc' = Steps(prog)[1]
    /\ data' = NoData
    /\ view' = [s \in Sections |-> NoView]
    /\ pivot_table' = NoTable
    /\ sliders' = <<>>
    /\ inputs' = Empty
    /\ drawn' = {}
    /\ log' = <<>>
    /\ error' = "none"
    /\ UNCHANGED <<prog, file>>

Next ==
    \/ load_data
    \/ title
    \/ model_interpretability_section
    \/ data_sources_section
    \/ key_metrics_section
    \/ real_world_scenario_section
    \/ slider_move

Spec == Init /\ [][Next]_vars

\* ---------------------------------------------------------------- helpers
Range(q) == {q[i] : i \in 1..Len(q)}

IsPrefix(a, b) == Len(a) <= Len(b) /\ \A i \in 1..Len(a) : a[i] = b[i]

\* a is b with some of its elements left out, the others in b's order.
IsSubseq(a, b) ==
    \E f \in [1..Len(a) -> 1..Len(b)] :
        /\ \A i \in 1..Len(a) : a[i] = b[f[i]]
        /\ \A i, j \in 1..Len(a) : i < j => f[i] < f[j]

\* read_csv has been called in this render.
LoadTried ==
    \E i \in 1..Len(log) : log[i] \in {<<"load", "-">>, <<"raise", "load_data">>}

\* Section s has run in this render.
Ran(s) == \E i \in 1..Len(log) : log[i][2] = s

\* The fields section s requires: those its code names, in dropna or in the
\* chart it draws.
RequiredFields(p, s) == subset(p, s) \cup chart_fields(p, s)

Matches(r, s) == notna(r, "Component") /\ r["Component"] = s

Clamp(x) == IF x < min_value THEN min_value
            ELSE IF x > max_value THEN max_value ELSE x

RECURSIVE SumCells(_, _)
SumCells(cell, todo) ==
    IF todo = {} THEN 0
    ELSE LET rc == CHOOSE x \in todo : TRUE
         IN (IF cell[rc] = NA THEN 0 ELSE cell[rc][1])
            + SumCells(cell, todo \ {rc})

\* The events of a run that nothing interrupts, in order.
RECURSIVE Canon(_)
Canon(steps) ==
    IF steps = <<>> \/ Head(steps) = "done" THEN <<>>
    ELSE (IF Head(steps) = "load_data" THEN << <<"load", "-">> >>
          ELSE IF Head(steps) = "title" THEN << <<"title", "-">> >>
          ELSE << <<"build", Head(steps)>>, <<"draw", Head(steps)>> >>)
         \o Canon(Tail(steps))

\* ----------------------------------------------------------------- claims

\* C1: every record of a built section view has a value in every field the
\* section requires, and no record of the table is left out of the view that
\* carries the section's label and has a value in every required field.
C1_ViewHoldsExactlyTheCompleteRows ==
    \A s \in Sections :
        (view[s].built /\ ({"Component"} \cup RequiredFields(prog, s)) \subseteq data.cols)
        => /\ \A r \in Range(view[s].rows) :
                 \A f \in RequiredFields(prog, s) : notna(r, f)
           /\ \A r \in Range(data.rows) :
                 (Matches(r, s) /\ \A f \in RequiredFields(prog, s) : notna(r, f))
                 => r \in Range(view[s].rows)

\* C2: every built section view is a subsequence of the table, in table
\* order, and each of its records carries the section's label.
C2_ViewIsLabelledSubsequence ==
    \A s \in Sections :
        (view[s].built /\ "Component" \in data.cols)
        => /\ IsSubseq(view[s].rows, data.rows)
           /\ Len(view[s].rows) <= Len(data.rows)
           /\ \A r \in Range(view[s].rows) : Matches(r, s)

\* C3: once the dashboard's scenario section has run, every risk factor of
\* its view has a slider, every slider value lies in [0,100], and a slider
\* the user has not touched holds the row's default clamped to [0,100].
C3_SlidersHoldClampedDefaults ==
    (prog = "dashboard" /\ Ran(RW) /\ view[RW].built)
    => /\ \A k \in 1..Len(sliders) :
             sliders[k].value \in min_value..max_value
       /\ \A r \in Range(view[RW].rows) :
             \E k \in 1..Len(sliders) :
                /\ sliders[k].id[1] = r["Risk Factor"]
                /\ (sliders[k].id \notin DOMAIN session
                    => sliders[k].value
                         = Clamp(int(r["Risk Score Contribution (%)"])))

\* C4: a section that has run against a table lacking one of the columns its
\* dropna names has raised KeyError (the spec's SchemaMismatch) and ended the
\* run with no view built; and whenever a column its chart reads is absent,
\* its chart is not rendered.
C4_AbsentColumnFailsFast ==
    \A s \in Sections :
        /\ (Ran(s) /\ ~(subset(prog, s) \subseteq data.cols))
           => /\ error = "KeyError"
              /\ pc = "aborted"
              /\ ~view[s].built
              /\ s \notin drawn
        /\ (Ran(s) /\ ~(chart_fields(prog, s) \subseteq data.cols))
           => /\ error # "none"
              /\ pc = "aborted"
              /\ s \notin drawn

C4_Witness ==
    /\ prog = "dashboard"
    /\ data.loaded
    /\ "LIME Weight" \notin data.cols
    /\ Len(data.rows) > 0
    /\ Ran(MI)
    /\ error = "KeyError"

\* C5: a section that has run against a table with every column, none of
\* whose records carries its label, has an empty view and has rendered.
C5_EmptySectionRenders ==
    \A s \in Sections :
        (/\ Ran(s)
         /\ data.cols = Columns
         /\ \A r \in Range(data.rows) : ~Matches(r, s)
         /\ view[s].built
         /\ view[s].rows = <<>>)
        => s \in drawn

C7_PivotCountsAddUp ==
    (prog = "script" /\ pivot_table.built)
    => SumCells(pivot_table.table.cell, DOMAIN pivot_table.table.cell)
         = Len(view[RW].rows)

C7_Witness ==
    /\ prog = "script"
    /\ pivot_table.built
    /\ Len(view[RW].rows) = 2
    /\ Cardinality(DOMAIN pivot_table.table.cell) = 4

\* C8: every cell of the script's pivot table holds a count; a pair of a row
\* key and a column key that no record has together holds zero.
C8_AbsentPairIsZero ==
    (prog = "script" /\ pivot_table.built)
    => \A rc \in DOMAIN pivot_table.table.cell :
          /\ pivot_table.table.cell[rc] # NA
          /\ pivot_table.table.cell[rc][1]
               = Cardinality({i \in 1..Len(view[RW].rows) :
                    /\ view[RW].rows[i]["Risk Factor"] = rc[1]
                    /\ view[RW].rows[i]["Correlation"] = rc[2]})

\* C9: the dashboard's pivot table has one entry per risk factor of the
\* scenario view, and the entry is the contribution of the first record, in
\* view order, with that risk factor.
C9_PivotTakesFirstRecord ==
    (prog = "dashboard" /\ pivot_table.built)
    => LET rows == view[RW].rows
           t == pivot_table.table
       IN /\ DOMAIN t = {rows[i]["Risk Factor"] : i \in 1..Len(rows)}
          /\ \A k \in DOMAIN t :
                \E i \in 1..Len(rows) :
                   /\ rows[i]["Risk Factor"] = k
                   /\ t[k] = rows[i]["Risk Score Contribution (%)"]
                   /\ \A j \in 1..(i - 1) : rows[j]["Risk Factor"] # k

C9_Witness ==
    /\ prog = "dashboard"
    /\ pivot_table.built
    /\ \E i, j \in 1..Len(view[RW].rows) :
          /\ i < j
          /\ view[RW].rows[i]["Risk Factor"] = view[RW].rows[j]["Risk Factor"]
          /\ view[RW].rows[i]["Risk Score Contribution (%)"]
               # view[RW].rows[j]["Risk Score Contribution (%)"]

\* C10 (as amended): a render is one pass in the program's order - the load
\* before any section, the sections in the order Model Interpretability, Data
\* Sources, Key Metrics, Real-World Scenario, each section's view built before
\* that section is drawn - and the first exception ends it: nothing is built
\* or drawn after it.
C10_SequentialPassAbortsOnFirstError ==
    LET n == Len(log)
        raised == n > 0 /\ log[n][1] = "raise"
        done == IF raised THEN SubSeq(log, 1, n - 1) ELSE log
        body == IF raised /\ Len(done) > 0 /\ done[Len(done)] = <<"build", log[n][2]>>
                THEN SubSeq(done, 1, Len(done) - 1) ELSE done
    IN /\ \A i \in 1..n : log[i][1] = "raise" => i = n
       /\ raised <=> error # "none"
       /\ raised <=> pc = "aborted"
       /\ IsPrefix(done, Canon(Steps(prog)))
       /\ raised => (Len(body) < Len(Canon(Steps(prog)))
                     /\ Canon(Steps(prog))[Len(body) + 1][2]
                          = (IF log[n][2] = "load_data" THEN "-" ELSE log[n][2]))
       /\ drawn = {s \in Sections : <<"draw", s>> \in Range(log)}
       /\ \A s \in Sections : view[s].built <=> <<"build", s>> \in Range(log)
       /\ data.loaded <=> <<"load", "-">> \in Range(log)

C10_Witness ==
    /\ pc = "aborted"
    /\ error # "none"
    /\ MI \in drawn
    /\ DS \in drawn
    /\ ~Ran(RW)

\* C10 (as stated): the pass of C10, in which moreover the loader and the
\* view builder have finished before the first chart is drawn: no load and no
\* view building follows a drawing.
C10_BuilderFinishesBeforeDrawing ==
    /\ C10_SequentialPassAbortsOnFirstError
    /\ \A i, j \in 1..Len(log) :
          (i < j /\ log[i][1] = "draw") => log[j][1] \notin {"load", "build"}

====
